---- MODULE Spec2Model ----
(***************************************************************************)
(* State-machine model of the kritic-ai-server backend: the credit ledger  *)
(* (create_analysis, purchase_credits, stripe_webhook), the Analysis       *)
(* record lifecycle (run_analysis) and the multi-provider analysis         *)
(* service (AnalysisService.analyze and its parser and merger).            *)
(***************************************************************************)
EXTENDS Integers, Sequences, FiniteSets, Bags, TLC

(***************************************************************************)
(* Bounds of the model.                                                    *)
(***************************************************************************)
\* user rows that can ever exist
MaxUsers == 1
\* HTTP requests that change the ledger, over a whole behaviour
MaxRequests == 2

(***************************************************************************)
(* Program constants.                                                      *)
(***************************************************************************)
\* User.credits_balance column default, and the mock user's grant
InitialCredits == 100
\* credits charged per requested model
CreditsPerModel == 10
\* "competitors": list(all_competitors.values())[:8]
MaxCompetitors == 8
\* all_risks[:8]
MaxRisks == 8
\* default optimism score of _merge_analyses
DefaultOptimism == 65
\* default final verdict score of _merge_analyses
DefaultScore == 5
\* optimism score of _create_fallback_analysis
FallbackOptimism == 70
\* final verdict score of _create_fallback_analysis
FallbackScore == 5
\* credits of the "starter" checkout package
StarterCredits == 100

(***************************************************************************)
(* JSON values, as json.loads returns them.  Every value is a record of    *)
(* the same shape: t is the Python type, n the number (or 0/1 of a bool),  *)
(* s the string, a the items of a list, o the members of a dict in         *)
(* document order (each [k |-> key, v |-> value]).                         *)
(***************************************************************************)
JNull == [t |-> "null", n |-> 0, s |-> "", a |-> <<>>, o |-> <<>>]
JNum(i) == [t |-> "num", n |-> i, s |-> "", a |-> <<>>, o |-> <<>>]
JStr(str) == [t |-> "str", n |-> 0, s |-> str, a |-> <<>>, o |-> <<>>]
JList(items) == [t |-> "list", n |-> 0, s |-> "", a |-> items, o |-> <<>>]
JObj(members) == [t |-> "obj", n |-> 0, s |-> "", a |-> <<>>, o |-> members]
KV(key, val) == [k |-> key, v |-> val]
EmptyDict == JObj(<<>>)
EmptyList == JList(<<>>)

\* Python truth value of a JSON value (if x: ...)
Truthy(x) ==
    CASE x.t = "null" -> FALSE
      [] x.t = "num" -> x.n # 0
      [] x.t = "str" -> x.s # ""
      [] x.t = "list" -> x.a # <<>>
      [] x.t = "obj" -> x.o # <<>>
      [] OTHER -> FALSE

IsDict(x) == x.t = "obj"

HasKey(d, key) == \E i \in 1..Len(d.o) : d.o[i].k = key

\* dict.get(key, default) of a dict d
Get(d, key, default) ==
    IF HasKey(d, key)
    THEN d.o[CHOOSE i \in 1..Len(d.o) :
                 d.o[i].k = key /\ \A j \in (i+1)..Len(d.o) : d.o[j].k # key].v
    ELSE default

RECURSIVE SumSeq(_)
SumSeq(q) == IF q = <<>> THEN 0 ELSE Head(q) + SumSeq(Tail(q))

\* the sequence q as a tuple of evaluated items
Tuple(q) == q \o <<>>

RECURSIVE SelectIdx(_, _, _)
\* the indices i of 1..n, in order, for which keep[i] holds
SelectIdx(keep, i, n) ==
    IF i > n THEN <<>>
    ELSE (IF keep[i] THEN <<i>> ELSE <<>>) \o SelectIdx(keep, i + 1, n)

(***************************************************************************)
(* Raw provider text.  A text is a sequence of segments: a run of prose    *)
(* (no brace in it), prose holding a stray "{" or a stray "}", or the      *)
(* serialisation of one JSON value.  The empty sequence is the empty       *)
(* string.                                                                 *)
(***************************************************************************)
Prose == [c |-> "prose", v |-> JNull]
LBrace == [c |-> "lbrace", v |-> JNull]
RBrace == [c |-> "rbrace", v |-> JNull]
Json(val) == [c |-> "json", v |-> val]

RECURSIVE ContainsDict(_)
\* whether the serialisation of x contains a brace
ContainsDict(x) ==
    CASE x.t = "obj" -> TRUE
      [] x.t = "list" -> \E i \in 1..Len(x.a) : ContainsDict(x.a[i])
      [] OTHER -> FALSE

HasOpen(seg) == seg.c = "lbrace" \/ (seg.c = "json" /\ ContainsDict(seg.v))
HasClose(seg) == seg.c = "rbrace" \/ (seg.c = "json" /\ ContainsDict(seg.v))

RECURSIVE BraceSpan(_)
\* json.loads of the span from the first "{" to the last "}" inside the
\* serialisation of one value that contains a dict: <<d>> when the span is
\* exactly one dict d, <<>> when it is not valid JSON
BraceSpan(x) ==
    IF x.t = "obj" THEN <<x>>
    ELSE LET idx == {i \in 1..Len(x.a) : ContainsDict(x.a[i])}
             first == CHOOSE i \in idx : \A j \in idx : i <= j
             last == CHOOSE i \in idx : \A j \in idx : j <= i
         IN  IF first = last THEN BraceSpan(x.a[first]) ELSE <<>>

\* json.loads(response_text): <<value>>, or <<>> when it raises
json_loads(text) ==
    IF Len(text) = 1 /\ text[1].c = "json" THEN <<text[1].v>> ELSE <<>>

\* re.search(r'\{[\s\S]*\}', response_text) followed by json.loads of the
\* match: the match runs from the first "{" to the last "}" of the text
json_match_loads(text) ==
    LET opens == {i \in 1..Len(text) : HasOpen(text[i])}
        closes == {i \in 1..Len(text) : HasClose(text[i])}
    IN  IF opens = {} \/ closes = {} THEN <<>>
        ELSE LET first == CHOOSE i \in opens : \A j \in opens : i <= j
                 last == CHOOSE i \in closes : \A j \in closes : j <= i
             IN  IF first = last /\ text[first].c = "json"
                 THEN BraceSpan(text[first].v)
                 ELSE <<>>

\* AnalysisService._parse_json_response: <<value>> or <<>> for None
parse_json_response(text) ==
    IF json_loads(text) # <<>> THEN json_loads(text)
    ELSE json_match_loads(text)

(***************************************************************************)
(* Python built-ins used by the merger.                                    *)
(***************************************************************************)
RECURSIVE DigitLen(_)
DigitLen(i) == IF i < 0 THEN 1 + DigitLen(0 - i)
               ELSE IF i < 10 THEN 1 ELSE 1 + DigitLen(i \div 10)

RECURSIVE PyReprLen(_)
\* len(repr(x)); escapes inside strings are not counted
PyReprLen(x) ==
    CASE x.t = "null" -> 4
      [] x.t = "bool" -> IF x.n = 1 THEN 4 ELSE 5
      [] x.t = "num" -> DigitLen(x.n)
      [] x.t = "str" -> Len(x.s) + 2
      [] x.t = "list" ->
           2 + SumSeq([i \in 1..Len(x.a) |-> PyReprLen(x.a[i])])
             + (IF Len(x.a) > 1 THEN 2 * (Len(x.a) - 1) ELSE 0)
      [] x.t = "obj" ->
           2 + SumSeq([i \in 1..Len(x.o) |->
                         Len(x.o[i].k) + 4 + PyReprLen(x.o[i].v)])
             + (IF Len(x.o) > 1 THEN 2 * (Len(x.o) - 1) ELSE 0)
      [] OTHER -> 0

\* len(str(x))
PyStrLen(x) == IF x.t = "str" THEN Len(x.s) ELSE PyReprLen(x)

\* whether len(x) raises TypeError
LenRaises(x) == x.t \in {"null", "num", "bool"}
\* len(x) of a value that has a length
PyLen(x) == CASE x.t = "str" -> Len(x.s)
              [] x.t = "list" -> Len(x.a)
              [] x.t = "obj" -> Len(x.o)
              [] OTHER -> 0

\* whether iterating x (for c in x, list.extend(x)) raises TypeError
IterRaises(x) == x.t \in {"null", "num", "bool"}
\* the items iterating x yields: the items of a list, the keys of a dict,
\* the characters of a string (each modelled as the one-character string "?")
Iter(x) == CASE x.t = "list" -> x.a
             [] x.t = "obj" -> Tuple([i \in 1..Len(x.o) |-> JStr(x.o[i].k)])
             [] x.t = "str" -> Tuple([i \in 1..Len(x.s) |-> JStr("?")])
             [] OTHER -> <<>>

\* whether x can be added to sum(): an int or a bool
IsNumber(x) == x.t \in {"num", "bool"}
\* whether x can be a dict key
Hashable(x) == x.t \notin {"list", "obj"}

RECURSIVE Flatten(_)
Flatten(qq) == IF qq = <<>> THEN <<>> ELSE Head(qq) \o Flatten(Tail(qq))

\* max(q, key=..., default=...) for keys given as a sequence: the first item
\* whose key is the largest, the default for an empty q
MaxBy(q, key, default) ==
    IF q = <<>> THEN default
    ELSE q[CHOOSE i \in 1..Len(q) :
             /\ \A j \in 1..Len(q) : key[j] <= key[i]
             /\ \A j \in 1..(i-1) : key[j] < key[i]]

FirstN(q, n) == IF Len(q) <= n THEN q ELSE SubSeq(q, 1, n)

\* a // b of Python for b > 0: the floor of the quotient
FloorDiv(a, b) == a \div b

\* a formatted string: the template and the values put into it
JFmt(template, args) ==
    [t |-> "str", n |-> 0, s |-> template, a |-> args, o |-> <<>>]

(***************************************************************************)
(* AnalysisService._merge_analyses.  analyses is the list of the parsed,   *)
(* truthy provider responses, in the order of llm_responses.               *)
(***************************************************************************)
SeqOf(analyses, key, default) ==
    Tuple([i \in 1..Len(analyses) |-> Get(analyses[i], key, default)])

Pick(q, keep) == LET idx == SelectIdx(keep, 1, Len(q))
                 IN  Tuple([i \in 1..Len(idx) |-> q[idx[i]]])

\* optimism_scores = [a.get("optimism_bias_score", 65) for a in analyses
\*                    if a.get("optimism_bias_score")]
optimism_scores(analyses) ==
    LET all == SeqOf(analyses, "optimism_bias_score", JNull)
    IN  Pick(all, [i \in 1..Len(all) |-> Truthy(all[i])])

\* every comp of every analysis.get("competitors", []), in order
all_comps(analyses) ==
    Flatten([i \in 1..Len(analyses) |->
               Iter(Get(analyses[i], "competitors", EmptyList))])

\* list(all_competitors.values()): the first entry of every truthy name
all_competitors(analyses) ==
    LET comps == all_comps(analyses)
        name(i) == Get(comps[i], "name", JNull)
    IN  Pick(comps, [i \in 1..Len(comps) |->
                       /\ Truthy(name(i))
                       /\ \A j \in 1..(i-1) : name(j) # name(i)])

\* market_reality = max([a.get("market_reality", {}) ...],
\*                      key=lambda x: len(str(x.get("truth_bomb", ""))))
best_market_reality(analyses) ==
    LET all == SeqOf(analyses, "market_reality", EmptyDict)
    IN  MaxBy(all, [i \in 1..Len(all) |->
                      PyStrLen(Get(all[i], "truth_bomb", JStr("")))],
              EmptyDict)

\* all_feasibility[0] if all_feasibility else {}
merged_feasibility(analyses) ==
    LET all == SeqOf(analyses, "feasibility", JNull)
        kept == Pick(all, [i \in 1..Len(all) |-> Truthy(all[i])])
    IN  IF kept # <<>> THEN kept[1] ELSE EmptyDict

RECURSIVE Unique(_)
\* q without the later occurrences of an item
Unique(q) ==
    IF q = <<>> THEN <<>>
    ELSE LET front == Unique(SubSeq(q, 1, Len(q) - 1))
             last == q[Len(q)]
         IN  IF \E i \in 1..Len(front) : front[i] = last THEN front
             ELSE Append(front, last)

\* risk factors collected as a set: a repeated entry is kept once
all_risks_unique(analyses) ==
    Unique(Flatten([i \in 1..Len(analyses) |->
                      Iter(Get(analyses[i], "risk_factors", EmptyList))]))

\* all_risks after every extend
all_risks(analyses) ==
    Flatten([i \in 1..Len(analyses) |->
               Iter(Get(analyses[i], "risk_factors", EmptyList))])

\* final_scores = [a.get("final_verdict", {}).get("score", 5) ... if ...score]
final_scores(analyses) ==
    LET fv == SeqOf(analyses, "final_verdict", EmptyDict)
        all == [i \in 1..Len(fv) |-> Get(fv[i], "score", JNull)]
    IN  Pick(all, [i \in 1..Len(all) |-> Truthy(all[i])])

best_verdict(analyses) ==
    LET all == SeqOf(analyses, "final_verdict", EmptyDict)
    IN  MaxBy(all, [i \in 1..Len(all) |->
                      PyStrLen(Get(all[i], "reasoning", JStr("")))],
              EmptyDict)

best_optimism_analysis(analyses) ==
    LET all == SeqOf(analyses, "optimism_analysis", JStr(""))
    IN  MaxBy(all, [i \in 1..Len(all) |-> PyLen(all[i])],
              JStr("optimism bias detected"))

\* sum(scores) // len(scores) if scores else default
Average(scores, default) ==
    IF scores = <<>> THEN default
    ELSE FloorDiv(SumSeq([i \in 1..Len(scores) |-> scores[i].n]), Len(scores))

\* whether _merge_analyses raises (AttributeError or TypeError) on analyses
merge_raises(analyses) ==
    \/ \E i \in 1..Len(analyses) : ~IsDict(analyses[i])
    \/ LET sc == optimism_scores(analyses)
       IN  \E i \in 1..Len(sc) : ~IsNumber(sc[i])
    \/ \E i \in 1..Len(analyses) :
          IterRaises(Get(analyses[i], "competitors", EmptyList))
    \/ LET comps == all_comps(analyses)
       IN  \E i \in 1..Len(comps) :
              \/ ~IsDict(comps[i])
              \/ LET nm == Get(comps[i], "name", JNull)
                 IN  Truthy(nm) /\ ~Hashable(nm)
    \/ \E i \in 1..Len(analyses) :
          ~IsDict(Get(analyses[i], "market_reality", EmptyDict))
    \/ \E i \in 1..Len(analyses) :
          IterRaises(Get(analyses[i], "risk_factors", EmptyList))
    \/ \E i \in 1..Len(analyses) :
          ~IsDict(Get(analyses[i], "final_verdict", EmptyDict))
    \/ LET sc == final_scores(analyses)
       IN  \E i \in 1..Len(sc) : ~IsNumber(sc[i])
    \/ \E i \in 1..Len(analyses) :
          LenRaises(Get(analyses[i], "optimism_analysis", JStr("")))
    \/ LET mf == merged_feasibility(analyses)
       IN  \/ ~IsDict(mf)
           \/ \E key \in {"technical", "financial", "timeline"} :
                 ~IsDict(Get(mf, key, EmptyDict))

\* the dict _merge_analyses returns when it does not raise
merge_analyses(analyses) ==
    LET avg_optimism == Average(optimism_scores(analyses), DefaultOptimism)
        avg_score == Average(final_scores(analyses), DefaultScore)
        market_reality == best_market_reality(analyses)
        mf == merged_feasibility(analyses)
        bv == best_verdict(analyses)
        risks == FirstN(all_risks(analyses), MaxRisks)
    IN  [optimism_bias_score |-> avg_optimism,
         optimism_analysis |-> best_optimism_analysis(analyses),
         competitors |-> FirstN(all_competitors(analyses), MaxCompetitors),
         market_size_reality |->
            [claimed |-> Get(market_reality, "claimed_size", JStr("not specified")),
             actual |-> Get(market_reality, "actual_size", JStr("needs verification")),
             notes |-> Get(market_reality, "truth_bomb", JStr("market size needs careful verification"))],
         feasibility_assessment |->
            [technical |-> Get(Get(mf, "technical", EmptyDict), "reality",
                               JStr("technical verification needed")),
             financial |-> Get(Get(mf, "financial", EmptyDict), "actual_cost",
                               JStr("financial requirements may be underestimated")),
             timeline |-> Get(Get(mf, "timeline", EmptyDict), "reality",
                              JStr("timeline is estimated optimistically"))],
         risk_factors |->
            Tuple([i \in 1..Len(risks) |->
                     IF IsDict(risks[i])
                     THEN Get(risks[i], "risk", JFmt("str(risk)", <<risks[i]>>))
                     ELSE risks[i]]),
         final_verdict |->
            [score |-> avg_score,
             reasoning |-> Get(bv, "reasoning",
                               JFmt("overall {avg_score}/10, optimism bias {avg_optimism}/100",
                                    <<JNum(avg_score), JNum(avg_optimism)>>)),
             one_liner |-> Get(bv, "one_liner", JStr("realistic verification is needed")),
             if_you_proceed |-> Get(bv, "if_you_proceed",
                                    JStr("start with competitor analysis and MVP validation"))]]

\* AnalysisService._create_fallback_analysis: the same dict for every input
create_fallback_analysis ==
    [optimism_bias_score |-> FallbackOptimism,
     optimism_analysis |-> JStr("fallback: optimism bias generally detected"),
     competitors |->
        <<JObj(<<KV("name", JStr("market research needed")),
                 KV("url", JStr("https://www.google.com/search?q=competitors")),
                 KV("description", JStr("further research needed")),
                 KV("market_position", JStr("unconfirmed"))>>)>>,
     market_size_reality |->
        [claimed |-> JStr("not specified"),
         actual |-> JStr("needs verification"),
         notes |-> JStr("market size claims need independent verification")],
     feasibility_assessment |->
        [technical |-> JStr("fallback technical"),
         financial |-> JStr("fallback financial"),
         timeline |-> JStr("fallback timeline")],
     risk_factors |->
        <<JStr("competition"), JStr("acquisition cost"), JStr("regulation"),
          JStr("technical complexity"), JStr("funding")>>,
     final_verdict |->
        [score |-> FallbackScore,
         reasoning |-> JStr("fallback reasoning"),
         one_liner |-> JStr("fallback one liner"),
         if_you_proceed |-> JStr("fallback advice")]]

(***************************************************************************)
(* The provider clients and AnalysisService.analyze.                       *)
(*                                                                         *)
(* A network outcome is what one HTTP call gives: kind "connect_error" or  *)
(* "timeout" (client.post raises), "non_json_body" (response.json()        *)
(* raises), "bad_envelope" (the accessor path raises), "no_content" (the   *)
(* envelope lacks the path: the defaults give ""), or "ok" with the        *)
(* generated text.                                                         *)
(***************************************************************************)
Net(kind, text) == [kind |-> kind, text |-> text]
NetKinds == {"connect_error", "timeout", "non_json_body", "bad_envelope",
             "no_content", "ok"}

\* the dict one provider client returns; it never raises
provider_result(model, net) ==
    IF net.kind = "ok"
    THEN [model |-> model, response |-> net.text, error |-> FALSE]
    ELSE IF net.kind = "no_content"
    THEN [model |-> model, response |-> <<>>, error |-> FALSE]
    ELSE [model |-> model, response |-> <<>>, error |-> TRUE]

analyze_with_gpt4(net) == provider_result("gpt4", net)
analyze_with_claude(net) == provider_result("claude", net)
analyze_with_gemini(net) == provider_result("gemini", net)

(***************************************************************************)
(* One provider client in detail.  An HTTP outcome is what client.post     *)
(* gives: post is "connect_error" or "timeout" (client.post raises) or     *)
(* "response"; body is <<>> when response.json() raises and <<data>>       *)
(* otherwise.  A step of the try block gives <<value>>, or <<>> when it     *)
(* raises.                                                                 *)
(***************************************************************************)
Http(post, body) == [post |-> post, body |-> body]

\* x.get(key, default): AttributeError unless x is a dict
PyGet(x, key, default) == IF IsDict(x) THEN <<Get(x, key, default)>> ELSE <<>>

\* x[0]: the first item of a list, the first character of a string; IndexError
\* on an empty one, KeyError on a dict, TypeError on a number or None
PyIndex0(x) ==
    CASE x.t = "list" /\ x.a # <<>> -> <<x.a[1]>>
      [] x.t = "str" /\ x.s # "" -> <<JStr("c")>>
      [] OTHER -> <<>>

\* the next step of a chain of accessors, unless an earlier one raised
Then(m, F(_)) == IF m = <<>> THEN <<>> ELSE F(m[1])

\* data.get("choices", [{}])[0].get("message", {}).get("content", "")
gpt4_content(data) ==
    Then(Then(Then(PyGet(data, "choices", JList(<<EmptyDict>>)), PyIndex0),
              LAMBDA x : PyGet(x, "message", EmptyDict)),
         LAMBDA x : PyGet(x, "content", JStr("")))

\* data.get("content", [{}])[0].get("text", "")
claude_content(data) ==
    Then(Then(PyGet(data, "content", JList(<<EmptyDict>>)), PyIndex0),
         LAMBDA x : PyGet(x, "text", JStr("")))

\* data.get("candidates", [{}])[0].get("content", {}).get("parts", [{}])[0]
\*     .get("text", "")
gemini_content(data) ==
    Then(Then(Then(Then(Then(PyGet(data, "candidates", JList(<<EmptyDict>>)),
                             PyIndex0),
                        LAMBDA x : PyGet(x, "content", EmptyDict)),
                   LAMBDA x : PyGet(x, "parts", JList(<<EmptyDict>>))),
              PyIndex0),
         LAMBDA x : PyGet(x, "text", JStr("")))

envelope_content(model, data) ==
    CASE model = "gpt4" -> gpt4_content(data)
      [] model = "claude" -> claude_content(data)
      [] model = "gemini" -> gemini_content(data)

\* what the try block gives: <<content>>, or <<>> when any step raised
client_try(model, http) ==
    IF http.post # "response" \/ http.body = <<>> THEN <<>>
    ELSE envelope_content(model, http.body[1])

ClientReturn(model, response, error) ==
    [raised |-> FALSE, model |-> model, response |-> response, error |-> error]
ClientRaise(model) ==
    [raised |-> TRUE, model |-> model, response |-> JNull, error |-> FALSE]

\* a client whose except clause covers the network call only
client_result_unguarded(model, http) ==
    IF http.post # "response" THEN ClientReturn(model, JStr(""), TRUE)
    ELSE IF client_try(model, http) = <<>> THEN ClientRaise(model)
    ELSE ClientReturn(model, client_try(model, http)[1], FALSE)

\* _analyze_with_<model>: the dict of the try block, or the dict of
\* "except Exception"
client_result(model, http) ==
    IF client_try(model, http) = <<>> THEN ClientReturn(model, JStr(""), TRUE)
    ELSE ClientReturn(model, client_try(model, http)[1], FALSE)

InList(x, q) == \E i \in 1..Len(q) : q[i] = x

\* the providers analyze calls for a models list
Called(models) == {m \in {"gpt4", "claude", "gemini"} : InList(m, models)}

\* responses = await asyncio.gather(*tasks): one result per task, in the order
\* the tasks were appended; nets gives the network outcome of each call
gather(models, nets) ==
    (IF InList("gpt4", models) THEN <<analyze_with_gpt4(nets["gpt4"])>> ELSE <<>>)
    \o (IF InList("claude", models) THEN <<analyze_with_claude(nets["claude"])>> ELSE <<>>)
    \o (IF InList("gemini", models) THEN <<analyze_with_gemini(nets["gemini"])>> ELSE <<>>)

\* the tasks analyze appends, by provider
Tasks(models) ==
    (IF InList("gpt4", models) THEN <<"gpt4">> ELSE <<>>)
    \o (IF InList("claude", models) THEN <<"claude">> ELSE <<>>)
    \o (IF InList("gemini", models) THEN <<"gemini">> ELSE <<>>)

\* the orders in which the calls of a set of providers can complete
CompletionOrders(called) ==
    {q \in [1..Cardinality(called) -> called] :
        \A i, j \in 1..Cardinality(called) : i # j => q[i] # q[j]}

\* the results in the order the calls completed
gather_as_completed(models, nets, order) ==
    [k \in 1..Len(order) |-> provider_result(order[k], nets[order[k]])]

\* asyncio.gather with the completion order of the calls made explicit: the
\* result of the call that completes k-th is stored at the position of its
\* task in the task list
gather_completed(models, nets, order) ==
    LET tasks == Tasks(models)
        position(model) == CHOOSE i \in 1..Len(tasks) : tasks[i] = model
        completed(i) == CHOOSE k \in 1..Len(order) : position(order[k]) = i
    IN  [i \in 1..Len(tasks) |->
           provider_result(order[completed(i)], nets[order[completed(i)]])]

\* parsed_responses of _synthesize_results
parsed_responses(llm_responses) ==
    LET parsed == [i \in 1..Len(llm_responses) |->
                     IF llm_responses[i].response # <<>>
                     THEN parse_json_response(llm_responses[i].response)
                     ELSE <<>>]
        kept == SelectIdx([i \in 1..Len(parsed) |->
                             parsed[i] # <<>> /\ Truthy(parsed[i][1])],
                          1, Len(parsed))
    IN  Tuple([i \in 1..Len(kept) |-> parsed[kept[i]][1]])

\* a _synthesize_results without the fallback branch
synthesize_results_always_merge(original_response, llm_responses) ==
    LET parsed == parsed_responses(llm_responses)
    IN  IF merge_raises(parsed)
        THEN [raised |-> TRUE, value |-> <<>>]
        ELSE [raised |-> FALSE, value |-> <<merge_analyses(parsed)>>]

\* AnalysisService._synthesize_results: [raised, value]; value is <<dict>>
synthesize_results(original_response, llm_responses) ==
    LET parsed == parsed_responses(llm_responses)
    IN  IF parsed # <<>>
        THEN IF merge_raises(parsed)
             THEN [raised |-> TRUE, value |-> <<>>]
             ELSE [raised |-> FALSE, value |-> <<merge_analyses(parsed)>>]
        ELSE [raised |-> FALSE, value |-> <<create_fallback_analysis>>]

\* AnalysisService.analyze
analyze(original_response, context, models, nets) ==
    synthesize_results(original_response, gather(models, nets))

(***************************************************************************)
(* Inputs the model draws from.                                            *)
(***************************************************************************)
CompetitorX == JObj(<<KV("name", JStr("Acme")), KV("url", JStr("acme.example"))>>)
CompetitorY == JObj(<<KV("name", JStr("Acme")), KV("url", JStr("other.example"))>>)

\* two well-formed verdicts
VerdictA ==
    JObj(<<KV("optimism_bias_score", JNum(80)),
           KV("optimism_analysis", JStr("far too rosy")),
           KV("competitors", JList(<<CompetitorX>>)),
           KV("risk_factors", JList(<<JStr("churn")>>)),
           KV("final_verdict", JObj(<<KV("score", JNum(4)),
                                      KV("reasoning", JStr("weak moat"))>>))>>)
VerdictB ==
    JObj(<<KV("optimism_bias_score", JNum(60)),
           KV("optimism_analysis", JStr("rosy")),
           KV("competitors", JList(<<CompetitorY>>)),
           KV("risk_factors",
              JList(<<JObj(<<KV("category", JStr("Market")),
                             KV("risk", JStr("price war"))>>)>>)),
           KV("final_verdict", JObj(<<KV("score", JNum(7)),
                                      KV("reasoning", JStr("crowded and slow"))>>))>>)

\* raw texts a provider can return
TextA == <<Json(VerdictA)>>
TextWrappedB == <<Prose, Json(VerdictB), Prose>>
TextProse == <<Prose>>
TextList == <<Json(JList(<<JNum(1)>>))>>
TextNullField == <<Json(JObj(<<KV("optimism_bias_score", JNum(50)),
                              KV("competitors", JNull)>>))>>

\* the network outcomes of one provider call: in the whole system, and
\* where run_analysis is observed on its own
Outcomes == {Net("timeout", <<>>), Net("ok", TextList)}
RunOutcomes == {Net("timeout", <<>>), Net("non_json_body", <<>>),
                Net("no_content", <<>>), Net("ok", TextA),
                Net("ok", TextWrappedB), Net("ok", TextProse),
                Net("ok", TextList), Net("ok", TextNullField)}

\* request bodies of POST /analyze the schema AnalysisCreate accepts
ModelLists == {<<"gpt4">>, <<"claude", "gpt4">>}
OriginalResponses == {"pitch"}

\* amounts of POST /credits/purchase the schema CreditPurchase accepts
PurchaseAmounts == {-95, 50}

(***************************************************************************)
(* State.                                                                  *)
(***************************************************************************)
VARIABLES
    credits_balance,  \* table user: credits_balance[id] of every user row
    transaction,      \* table transaction: the rows in insertion order
    analysis,         \* table analysis: analysis[id] is the row of that id
    session,          \* requests in flight: the bag of their ORM sessions
    task,             \* task[id]: the run_analysis call of analysis id
    nreq,             \* requests started so far
    llm_responses,    \* history: what gather gave the observed analyze calls
    get_analysis_response,  \* the last GET /analyze/{id}: request and response
    client,           \* one invocation of a provider client, step by step
    parser,           \* one call of _parse_json_response: its text and result
    token,            \* table token: the rows in insertion order
    clock,            \* the time, in the unit of a JWT's exp claim
    refresh_response  \* the last POST /auth/refresh-token: request and response

\* the state the ledger and analysis endpoints never touch
auth_vars == <<token, clock, refresh_response>>

other_vars == <<client, parser, auth_vars>>

vars == <<credits_balance, transaction, analysis, session, task, nreq,
          llm_responses, get_analysis_response, other_vars>>

UserIds == 1..Len(credits_balance)
AnalysisIds == 1..Len(analysis)

Init ==
    /\ credits_balance = <<>>
    /\ transaction = <<>>
    /\ analysis = <<>>
    /\ session = EmptyBag
    /\ task = <<>>
    /\ nreq = 0
    /\ llm_responses = <<>>
    /\ get_analysis_response = <<>>
    /\ client = <<>>
    /\ parser = <<>>
    /\ token = <<>>
    /\ clock = 0
    /\ refresh_response = <<>>

\* a Transaction row
Transaction(user_id, type, amount) ==
    [user_id |-> user_id, type |-> type, amount |-> amount]

\* a request's ORM session: the endpoint, the user row it loaded and the
\* credits_balance that row had when it was loaded
Session(op, user, loaded) == [op |-> op, user |-> user, loaded |-> loaded]

Add(bag, x) == bag (+) SetToBag({x})
Remove(bag, x) == bag (-) SetToBag({x})

(***************************************************************************)
(* user_service.create_user: a login creates a user row; credits_balance   *)
(* takes the column default.                                               *)
(***************************************************************************)
create_user ==
    /\ Len(credits_balance) < MaxUsers
    /\ credits_balance' = Append(credits_balance, InitialCredits)
    /\ UNCHANGED <<transaction, analysis, session, task, nreq, llm_responses, get_analysis_response, other_vars>>

(***************************************************************************)
(* get_current_user (analyze.py): db.query(User).first(), creating and     *)
(* committing the mock user when the table is empty.  The query has no     *)
(* ORDER BY, so the database may give any row of the table.  It runs as a  *)
(* dependency, before the body of create_analysis.                         *)
(***************************************************************************)
get_current_user ==
    /\ nreq < MaxRequests
    /\ nreq' = nreq + 1
    /\ IF credits_balance = <<>>
       THEN /\ credits_balance' = <<InitialCredits>>
            /\ session' = Add(session, Session("create_analysis", 1, InitialCredits))
       ELSE /\ \E u \in UserIds :
                  session' = Add(session, Session("create_analysis", u, credits_balance[u]))
            /\ UNCHANGED credits_balance
    /\ UNCHANGED <<transaction, analysis, task, llm_responses, get_analysis_response, other_vars>>

\* a cost that ignores the number of providers
credit_cost_flat(models) == CreditsPerModel

\* credit_cost = len(analysis_data.models) * 10
credit_cost(models) == Len(models) * CreditsPerModel

\* a check that only asks for a positive balance
insufficient_credits_nonpositive(loaded, cost) == loaded <= 0

\* if current_user.credits_balance < credit_cost: raise HTTPException(402)
insufficient_credits(loaded, cost) == loaded < cost

\* the UPDATE the ORM flushes for an assignment to user.credits_balance: the
\* value computed from the loaded one; no UPDATE when the value is unchanged
flush_balance(balances, user, loaded, value) ==
    IF value = loaded THEN balances ELSE [balances EXCEPT ![user] = value]

\* an Analysis row that is already processing when it is committed
NewAnalysisProcessing(user, original_response, models, cost) ==
    [user_id |-> user, original_response |-> original_response,
     context |-> "", models_used |-> models, status |-> "processing", results |-> <<>>,
     credits_used |-> cost]

\* the Analysis row create_analysis adds
NewAnalysis(user, original_response, models, cost) ==
    [user_id |-> user, original_response |-> original_response,
     context |-> "", models_used |-> models, status |-> "pending", results |-> <<>>,
     credits_used |-> cost]

\* the run_analysis call create_analysis hands to background_tasks
NewTask(original_response, models) ==
    [pc |-> "queued", original_response |-> original_response,
     models |-> models, exc |-> "none"]

\* a create_analysis that commits the row and the debit but no Transaction row
commit_create_analysis_no_row(s, original_response, models, cost) ==
    /\ analysis' = Append(analysis, NewAnalysis(s.user, original_response, models, cost))
    /\ credits_balance' = flush_balance(credits_balance, s.user, s.loaded, s.loaded - cost)
    /\ task' = Append(task, NewTask(original_response, models))
    /\ UNCHANGED transaction

\* db.commit() of create_analysis: the Analysis row, the new balance and the
\* Transaction row in one database transaction
commit_create_analysis(s, original_response, models, cost) ==
    /\ analysis' = Append(analysis, NewAnalysis(s.user, original_response, models, cost))
    /\ credits_balance' = flush_balance(credits_balance, s.user, s.loaded, s.loaded - cost)
    /\ transaction' = Append(transaction, Transaction(s.user, "usage", 0 - cost))
    /\ task' = Append(task, NewTask(original_response, models))

(***************************************************************************)
(* create_analysis, after its dependencies: the check, the commit and the  *)
(* scheduling of run_analysis.  A commit that raises leaves nothing.       *)
(***************************************************************************)
create_analysis(s, original_response, models, commit_ok) ==
    /\ s.op = "create_analysis"
    /\ session' = Remove(session, s)
    /\ LET cost == credit_cost(models)
       IN  IF insufficient_credits(s.loaded, cost) \/ ~commit_ok
           THEN UNCHANGED <<credits_balance, transaction, analysis, task>>
           ELSE commit_create_analysis(s, original_response, models, cost)
    /\ UNCHANGED <<nreq, llm_responses, get_analysis_response, other_vars>>

(***************************************************************************)
(* get_current_user_from_header: the user row of "Bearer <user_id>"; a     *)
(* request for a missing user ends with 404 and changes nothing.           *)
(***************************************************************************)
get_current_user_from_header(user) ==
    /\ nreq < MaxRequests
    /\ user \in UserIds
    /\ nreq' = nreq + 1
    /\ session' = Add(session, Session("purchase_credits", user, credits_balance[user]))
    /\ UNCHANGED <<credits_balance, transaction, analysis, task, llm_responses, get_analysis_response, other_vars>>

\* a credit that updates the balance and adds no Transaction row
commit_credit_no_row(s, amount) ==
    /\ credits_balance' = flush_balance(credits_balance, s.user, s.loaded, s.loaded + amount)
    /\ UNCHANGED transaction

\* the balance update and Transaction row of a credit, in one commit
commit_credit(s, amount) ==
    /\ credits_balance' = flush_balance(credits_balance, s.user, s.loaded, s.loaded + amount)
    /\ transaction' = Append(transaction, Transaction(s.user, "purchase", amount))

(***************************************************************************)
(* purchase_credits, after its dependencies.                               *)
(***************************************************************************)
purchase_credits(s, amount, commit_ok) ==
    /\ s.op = "purchase_credits"
    /\ session' = Remove(session, s)
    /\ IF commit_ok
       THEN commit_credit(s, amount)
       ELSE UNCHANGED <<credits_balance, transaction>>
    /\ UNCHANGED <<analysis, task, nreq, llm_responses, get_analysis_response, other_vars>>

(***************************************************************************)
(* stripe_webhook for a checkout.session.completed event: the query of the *)
(* user named by the session metadata, then the credit and its commit.  An *)
(* event for a missing user changes nothing.                               *)
(***************************************************************************)
stripe_webhook_query(user) ==
    /\ nreq < MaxRequests
    /\ user \in UserIds
    /\ nreq' = nreq + 1
    /\ session' = Add(session, Session("stripe_webhook", user, credits_balance[user]))
    /\ UNCHANGED <<credits_balance, transaction, analysis, task, llm_responses, get_analysis_response, other_vars>>

stripe_webhook(s, credits, commit_ok) ==
    /\ s.op = "stripe_webhook"
    /\ session' = Remove(session, s)
    /\ IF commit_ok
       THEN commit_credit(s, credits)
       ELSE UNCHANGED <<credits_balance, transaction>>
    /\ UNCHANGED <<analysis, task, nreq, llm_responses, get_analysis_response, other_vars>>

(***************************************************************************)
(* run_analysis.  Every db.commit() either commits or raises and rolls     *)
(* back, which discards the pending attribute changes.  The database sees  *)
(* run_analysis twice: at the commit of processing (or of the handler,     *)
(* when that commit raises) and, after the awaited analyze, at the commit  *)
(* of the results (or of the handler).                                     *)
(***************************************************************************)
\* a status update that is not restricted to the record of the task
SetStatusOfAll(id, status) ==
    analysis' = [i \in DOMAIN analysis |-> [analysis[i] EXCEPT !.status = status]]

SetStatus(id, status) == analysis' = [analysis EXCEPT ![id].status = status]

\* a handler that puts the record back to pending
run_analysis_except_requeue(id, exc, handler_ok) ==
    IF handler_ok
    THEN /\ SetStatus(id, "pending")
         /\ task' = [task EXCEPT ![id].pc = "done", ![id].exc = exc]
    ELSE /\ task' = [task EXCEPT ![id].pc = "escaped", ![id].exc = exc]
         /\ UNCHANGED analysis

\* the task after its handler ran for exception exc:
\* except Exception: if analysis: analysis.status = failed; db.commit()
\* A handler whose commit raises lets the exception leave run_analysis.
run_analysis_except(id, exc, handler_ok) ==
    IF handler_ok
    THEN /\ SetStatus(id, "failed")
         /\ task' = [task EXCEPT ![id].pc = "done", ![id].exc = exc]
    ELSE /\ task' = [task EXCEPT ![id].pc = "escaped", ![id].exc = exc]
         /\ UNCHANGED analysis

\* a run_analysis whose handler gives the credits back when it marks the
\* record failed
run_analysis_start_refund(id, query_ok, commit_ok, handler_ok) ==
    /\ task[id].pc = "queued"
    /\ IF ~query_ok
       THEN /\ task' = [task EXCEPT ![id].pc = "escaped", ![id].exc = "query"]
            /\ UNCHANGED <<analysis, credits_balance, transaction>>
       ELSE IF commit_ok
       THEN /\ SetStatus(id, "processing")
            /\ task' = [task EXCEPT ![id].pc = "processing"]
            /\ UNCHANGED <<credits_balance, transaction>>
       ELSE IF handler_ok
       THEN /\ SetStatus(id, "failed")
            /\ task' = [task EXCEPT ![id].pc = "done", ![id].exc = "commit_processing"]
            /\ credits_balance' =
                  [credits_balance EXCEPT ![analysis[id].user_id] =
                      @ + analysis[id].credits_used]
            /\ transaction' =
                  Append(transaction, Transaction(analysis[id].user_id, "refund",
                                                  analysis[id].credits_used))
       ELSE /\ task' = [task EXCEPT ![id].pc = "escaped", ![id].exc = "commit_processing"]
            /\ UNCHANGED <<analysis, credits_balance, transaction>>
    /\ UNCHANGED <<session, nreq, llm_responses, get_analysis_response, other_vars>>

\* analysis = db.query(...).first(); analysis.status = processing; db.commit().
\* A query that raises leaves the name analysis unbound: the handler's
\* "if analysis" raises in turn and the exception leaves run_analysis.
run_analysis_start(id, query_ok, commit_ok, handler_ok) ==
    /\ task[id].pc = "queued"
    /\ IF ~query_ok
       THEN /\ task' = [task EXCEPT ![id].pc = "escaped", ![id].exc = "query"]
            /\ UNCHANGED analysis
       ELSE IF commit_ok
       THEN /\ SetStatus(id, "processing")
            /\ task' = [task EXCEPT ![id].pc = "processing"]
       ELSE run_analysis_except(id, "commit_processing", handler_ok)
    /\ UNCHANGED <<credits_balance, transaction, session, nreq, llm_responses, get_analysis_response, other_vars>>

\* a run_analysis whose handler commits the results the failed commit left
\* pending on the row
run_analysis_finish_dirty(id, nets) ==
    /\ task[id].pc = "processing"
    /\ LET r == analyze(task[id].original_response, "", task[id].models, nets)
       IN  IF r.raised
           THEN \E handler_ok \in BOOLEAN :
                   run_analysis_except(id, "analyze", handler_ok)
           ELSE \/ /\ analysis' = [analysis EXCEPT ![id].results = r.value,
                                                   ![id].status = "completed"]
                   /\ task' = [task EXCEPT ![id].pc = "done"]
                \/ /\ analysis' = [analysis EXCEPT ![id].results = r.value,
                                                   ![id].status = "failed"]
                   /\ task' = [task EXCEPT ![id].pc = "done",
                                           ![id].exc = "commit_results"]
                \/ run_analysis_except(id, "commit_results", FALSE)
    /\ UNCHANGED <<credits_balance, transaction, session, nreq, get_analysis_response, other_vars>>

\* result = await service.analyze(original_response, context, models);
\* analysis.results = result; analysis.status = completed; db.commit()
\* nets gives the network outcome of every provider call; the commit and the
\* handler's commit each succeed or raise
run_analysis_store(id, r) ==
    IF r.raised
    THEN \E handler_ok \in BOOLEAN :
            run_analysis_except(id, "analyze", handler_ok)
    ELSE \/ /\ analysis' = [analysis EXCEPT ![id].results = r.value,
                                            ![id].status = "completed"]
            /\ task' = [task EXCEPT ![id].pc = "done"]
         \/ \E handler_ok \in BOOLEAN :
               run_analysis_except(id, "commit_results", handler_ok)

run_analysis_finish(id, nets) ==
    /\ task[id].pc = "processing"
    /\ LET r == analyze(task[id].original_response, "", task[id].models, nets)
       IN  run_analysis_store(id, r)
    /\ UNCHANGED <<credits_balance, transaction, session, nreq, get_analysis_response, other_vars>>

(***************************************************************************)
(* The system: requests of any clients and background tasks, interleaved.  *)
(* A request is two steps: its dependencies load the user row, then its    *)
(* body runs to the response.                                              *)
(***************************************************************************)
Finish ==
    \E id \in {i \in AnalysisIds : task[i].pc = "processing"} :
       \E nets \in [Called(task[id].models) -> Outcomes] :
          /\ run_analysis_finish(id, nets)
          /\ UNCHANGED llm_responses

Next ==
    \/ create_user
    \/ get_current_user
    \/ \E s \in BagToSet(session), o \in OriginalResponses, m \in ModelLists,
          ok \in BOOLEAN : create_analysis(s, o, m, ok)
    \/ \E u \in 1..MaxUsers : get_current_user_from_header(u)
    \/ \E s \in BagToSet(session), a \in PurchaseAmounts, ok \in BOOLEAN :
          purchase_credits(s, a, ok)
    \/ \E u \in 1..MaxUsers : stripe_webhook_query(u)
    \/ \E s \in BagToSet(session), ok \in BOOLEAN :
          stripe_webhook(s, StarterCredits, ok)
    \/ \E id \in AnalysisIds, q \in BOOLEAN, ok \in BOOLEAN, h \in BOOLEAN :
          run_analysis_start(id, q, ok, h)
    \/ Finish

Spec == Init /\ [][Next]_vars

(***************************************************************************)
(* The same system under fair scheduling: the event loop runs every        *)
(* background task that was added, and every provider call settles, so a   *)
(* run_analysis that can take its next step eventually takes it.           *)
(***************************************************************************)
RunStep(id) ==
    /\ id \in AnalysisIds
    /\ \/ \E q \in BOOLEAN, ok \in BOOLEAN, h \in BOOLEAN :
             run_analysis_start(id, q, ok, h)
       \/ /\ task[id].pc = "processing"
          /\ \E nets \in [Called(task[id].models) -> Outcomes] :
                /\ run_analysis_finish(id, nets)
                /\ UNCHANGED llm_responses

SpecFair == Init /\ [][Next]_vars /\ \A id \in 1..MaxRequests : WF_vars(RunStep(id))

(***************************************************************************)
(* The same system when requests run one at a time: a request arrives only *)
(* when no other request is in flight.                                     *)
(***************************************************************************)
NextSeq ==
    \/ create_user
    \/ session = EmptyBag /\ get_current_user
    \/ \E s \in BagToSet(session), o \in OriginalResponses, m \in ModelLists,
          ok \in BOOLEAN : create_analysis(s, o, m, ok)
    \/ \E u \in 1..MaxUsers : session = EmptyBag /\ get_current_user_from_header(u)
    \/ \E s \in BagToSet(session), a \in PurchaseAmounts, ok \in BOOLEAN :
          purchase_credits(s, a, ok)
    \/ \E u \in 1..MaxUsers : session = EmptyBag /\ stripe_webhook_query(u)
    \/ \E s \in BagToSet(session), ok \in BOOLEAN :
          stripe_webhook(s, StarterCredits, ok)
    \/ \E id \in AnalysisIds, q \in BOOLEAN, ok \in BOOLEAN, h \in BOOLEAN :
          run_analysis_start(id, q, ok, h)
    \/ Finish

SpecSeq == Init /\ [][NextSeq]_vars

(***************************************************************************)
(* run_analysis observed on its own: one accepted analysis of the mock     *)
(* user, every network outcome of every provider call, and the responses   *)
(* gather gave recorded in llm_responses.                                  *)
(***************************************************************************)
RunModelLists == {<<"gpt4">>, <<"gpt4", "claude">>, <<"claude", "gpt4">>,
                  <<"gpt4", "claude", "gemini">>}
RunOriginalResponses == {"pitch", "other pitch"}

InitRun ==
    \E o \in RunOriginalResponses, m \in RunModelLists :
       /\ credits_balance = <<InitialCredits - credit_cost(m)>>
       /\ transaction = <<Transaction(1, "usage", 0 - credit_cost(m))>>
       /\ analysis = <<NewAnalysis(1, o, m, credit_cost(m))>>
       /\ task = <<NewTask(o, m)>>
       /\ session = EmptyBag
       /\ nreq = 1
       /\ llm_responses = <<>>
       /\ get_analysis_response = <<>>
       /\ client = <<>>
       /\ parser = <<>>
       /\ token = <<>>
       /\ clock = 0
       /\ refresh_response = <<>>

FinishRun ==
    \E id \in {i \in AnalysisIds : task[i].pc = "processing"} :
       \E nets \in [Called(task[id].models) -> RunOutcomes] :
          /\ run_analysis_finish(id, nets)
          /\ llm_responses' = <<gather(task[id].models, nets)>>

NextRun ==
    \/ \E id \in AnalysisIds, q \in BOOLEAN, ok \in BOOLEAN, h \in BOOLEAN :
          run_analysis_start(id, q, ok, h)
    \/ FinishRun

SpecRun == InitRun /\ [][NextRun]_vars

(***************************************************************************)
(* get_analysis for the user get_current_user gave and a path parameter.   *)
(* The row is looked up by id and user_id; the response is 404 without a   *)
(* body, or the fields of the row with the keys of results (here verdict)  *)
(* added when the row is completed and has results.                        *)
(***************************************************************************)
ResponseData(id) ==
    [id |-> id,
     original_response |-> analysis[id].original_response,
     status |-> analysis[id].status,
     credits_used |-> analysis[id].credits_used,
     verdict |-> IF analysis[id].status = "completed" /\ analysis[id].results # <<>>
                 THEN analysis[id].results ELSE <<>>]

\* a get_analysis that looks the row up by id alone
get_analysis_by_id(user, analysis_id) ==
    /\ user \in UserIds
    /\ get_analysis_response' =
          IF analysis_id \in AnalysisIds
          THEN [user |-> user, analysis_id |-> analysis_id, status_code |-> 200,
                response_data |-> <<ResponseData(analysis_id)>>]
          ELSE [user |-> user, analysis_id |-> analysis_id, status_code |-> 404,
                response_data |-> <<>>]
    /\ UNCHANGED <<credits_balance, transaction, analysis, session, task, nreq,
                   llm_responses, other_vars>>

\* a get_analysis that hands the results out once and clears them
get_analysis_consuming(user, analysis_id) ==
    /\ user \in UserIds
    /\ IF analysis_id \in AnalysisIds /\ analysis[analysis_id].user_id = user
       THEN /\ get_analysis_response' =
                  [user |-> user, analysis_id |-> analysis_id, status_code |-> 200,
                   response_data |-> <<ResponseData(analysis_id)>>]
            /\ analysis' = [analysis EXCEPT ![analysis_id].results = <<>>]
       ELSE /\ get_analysis_response' =
                  [user |-> user, analysis_id |-> analysis_id, status_code |-> 404,
                   response_data |-> <<>>]
            /\ UNCHANGED analysis
    /\ UNCHANGED <<credits_balance, transaction, session, task, nreq, llm_responses, other_vars>>

get_analysis(user, analysis_id) ==
    /\ user \in UserIds
    /\ get_analysis_response' =
          IF analysis_id \in AnalysisIds /\ analysis[analysis_id].user_id = user
          THEN [user |-> user, analysis_id |-> analysis_id, status_code |-> 200,
                response_data |-> <<ResponseData(analysis_id)>>]
          ELSE [user |-> user, analysis_id |-> analysis_id, status_code |-> 404,
                response_data |-> <<>>]
    /\ UNCHANGED <<credits_balance, transaction, analysis, session, task, nreq,
                   llm_responses, other_vars>>

(***************************************************************************)
(* Reads among the other operations.  Two users are registered and one of  *)
(* them has had an analysis accepted; either user reads any identifier,    *)
(* while further requests and the background tasks go on.                  *)
(***************************************************************************)
ReadOutcomes == {Net("timeout", <<>>), Net("ok", TextA)}

InitRead ==
    \E owner \in {1, 2} :
       /\ credits_balance = [u \in {1, 2} |->
                               IF u = owner
                               THEN InitialCredits - credit_cost(<<"gpt4">>)
                               ELSE InitialCredits]
       /\ transaction = <<Transaction(owner, "usage", 0 - credit_cost(<<"gpt4">>))>>
       /\ analysis = <<NewAnalysis(owner, "pitch", <<"gpt4">>, credit_cost(<<"gpt4">>))>>
       /\ task = <<NewTask("pitch", <<"gpt4">>)>>
       /\ session = EmptyBag
       /\ nreq = 1
       /\ llm_responses = <<>>
       /\ get_analysis_response = <<>>
       /\ client = <<>>
       /\ parser = <<>>
       /\ token = <<>>
       /\ clock = 0
       /\ refresh_response = <<>>

ReadModelLists == {<<"gpt4">>}

NextRead ==
    \/ get_current_user
    \/ \E s \in BagToSet(session), o \in OriginalResponses, m \in ReadModelLists,
          ok \in BOOLEAN : create_analysis(s, o, m, ok)
    \/ \E id \in AnalysisIds, q \in BOOLEAN, ok \in BOOLEAN, h \in BOOLEAN :
          run_analysis_start(id, q, ok, h)
    \/ \E id \in {i \in AnalysisIds : task[i].pc = "processing"} :
          \E nets \in [Called(task[id].models) -> ReadOutcomes] :
             /\ run_analysis_finish(id, nets)
             /\ UNCHANGED llm_responses
    \/ \E u \in UserIds, id \in 1..(Len(analysis) + 1) : get_analysis(u, id)

SpecRead == InitRead /\ [][NextRead]_vars

(***************************************************************************)
(* POST /analyze with every body the schema AnalysisCreate accepts: any    *)
(* string as original_response, any list of strings as models.             *)
(***************************************************************************)
RequestTexts == {"", "pitch"}
RequestModelLists == {<<>>, <<"llama">>, <<"gpt4">>, <<"gpt4", "llama">>}

NextReq ==
    \/ create_user
    \/ get_current_user
    \/ \E s \in BagToSet(session), o \in RequestTexts, m \in RequestModelLists,
          ok \in BOOLEAN : create_analysis(s, o, m, ok)
    \/ \E id \in AnalysisIds, q \in BOOLEAN, ok \in BOOLEAN, h \in BOOLEAN :
          run_analysis_start(id, q, ok, h)
    \/ Finish

SpecReq == Init /\ [][NextReq]_vars

(***************************************************************************)
(* run_analysis when every provider answers with a verdict: the scores the *)
(* merger averages range over the ends and the inside of their scales, and *)
(* one verdict carries no score.                                           *)
(***************************************************************************)
ScoreVerdict(optimism, score) ==
    JObj(<<KV("optimism_bias_score", JNum(optimism)),
           KV("optimism_analysis", JStr("rosy")),
           KV("final_verdict", JObj(<<KV("score", JNum(score)),
                                      KV("reasoning", JStr("thin"))>>))>>)
VerdictNoScore == JObj(<<KV("optimism_analysis", JStr("rosy"))>>)

MergeOutcomes == {Net("ok", <<Json(ScoreVerdict(0, 3))>>),
                  Net("ok", <<Json(ScoreVerdict(35, 0))>>),
                  Net("ok", <<Json(ScoreVerdict(100, 10))>>),
                  Net("ok", <<Json(VerdictNoScore)>>)}

FinishMerge ==
    \E id \in {i \in AnalysisIds : task[i].pc = "processing"} :
       \E nets \in [Called(task[id].models) -> MergeOutcomes] :
          /\ run_analysis_finish(id, nets)
          /\ llm_responses' = <<gather(task[id].models, nets)>>

NextMerge ==
    \/ \E id \in AnalysisIds, q \in BOOLEAN, ok \in BOOLEAN, h \in BOOLEAN :
          run_analysis_start(id, q, ok, h)
    \/ FinishMerge

SpecMerge == InitRun /\ [][NextMerge]_vars

(***************************************************************************)
(* run_analysis when the providers return risk factors: lists of objects   *)
(* of the shape the prompt asks for, of plain strings, of both, with       *)
(* entries that repeat within and across providers, and more than eight    *)
(* entries in all.                                                         *)
(***************************************************************************)
Risk(category, risk) ==
    JObj(<<KV("category", JStr(category)), KV("risk", JStr(risk)),
           KV("severity", JStr("High"))>>)

RiskVerdict(risks) ==
    JObj(<<KV("optimism_bias_score", JNum(50)), KV("risk_factors", JList(risks))>>)

RisksFive == <<Risk("Market", "churn"), JStr("burn rate"), Risk("Legal", "licence"),
               Risk("Market", "churn"), JStr("hiring")>>
RisksFour == <<JStr("burn rate"), Risk("Technical", "latency"),
               Risk("Market", "churn"), JStr("lock-in")>>

RiskOutcomes == {Net("timeout", <<>>),
                 Net("ok", <<Json(RiskVerdict(RisksFive))>>),
                 Net("ok", <<Prose, Json(RiskVerdict(RisksFour))>>),
                 Net("ok", <<Json(RiskVerdict(<<>>))>>),
                 Net("ok", <<Json(VerdictNoScore)>>)}

FinishRisk ==
    \E id \in {i \in AnalysisIds : task[i].pc = "processing"} :
       \E nets \in [Called(task[id].models) -> RiskOutcomes] :
          /\ run_analysis_finish(id, nets)
          /\ llm_responses' = <<gather(task[id].models, nets)>>

NextRisk ==
    \/ \E id \in AnalysisIds, q \in BOOLEAN, ok \in BOOLEAN, h \in BOOLEAN :
          run_analysis_start(id, q, ok, h)
    \/ FinishRisk

SpecRisk == InitRun /\ [][NextRisk]_vars

(***************************************************************************)
(* run_analysis with the order in which the concurrent provider calls      *)
(* complete made explicit.  The two verdicts differ wherever the merger    *)
(* breaks a tie by position: the same competitor name, two feasibility     *)
(* objects, and texts of equal length.                                     *)
(***************************************************************************)
TieVerdict(tag) ==
    JObj(<<KV("optimism_bias_score", JNum(50)),
           KV("optimism_analysis", JStr("rosy " \o tag)),
           KV("competitors",
              JList(<<JObj(<<KV("name", JStr("Acme")), KV("url", JStr(tag))>>)>>)),
           KV("market_reality", JObj(<<KV("truth_bomb", JStr("small " \o tag))>>)),
           KV("feasibility",
              JObj(<<KV("technical", JObj(<<KV("reality", JStr(tag))>>))>>)),
           KV("risk_factors", JList(<<JStr("risk " \o tag)>>)),
           KV("final_verdict", JObj(<<KV("score", JNum(5)),
                                      KV("reasoning", JStr("weak " \o tag))>>))>>)

OrderOutcomes == {Net("timeout", <<>>), Net("ok", <<Json(TieVerdict("a"))>>),
                  Net("ok", <<Json(TieVerdict("b"))>>)}

run_analysis_completing(id, nets, order) ==
    /\ task[id].pc = "processing"
    /\ LET responses == gather_completed(task[id].models, nets, order)
       IN  /\ run_analysis_store(id, synthesize_results(task[id].original_response,
                                                         responses))
           /\ llm_responses' = <<responses, order>>
    /\ UNCHANGED <<credits_balance, transaction, session, nreq, get_analysis_response, other_vars>>

NextOrder ==
    \/ \E id \in AnalysisIds, q \in BOOLEAN, ok \in BOOLEAN, h \in BOOLEAN :
          run_analysis_start(id, q, ok, h)
    \/ \E id \in {i \in AnalysisIds : task[i].pc = "processing"} :
          \E nets \in [Called(task[id].models) -> OrderOutcomes] :
             \E order \in CompletionOrders(Called(task[id].models)) :
                run_analysis_completing(id, nets, order)

SpecOrder == InitRun /\ [][NextOrder]_vars

(***************************************************************************)
(* One invocation of a provider client: the call is made with a prompt,    *)
(* client.post is awaited once, and the client returns.  The bodies are    *)
(* the envelopes of the three providers and their damaged forms; every     *)
(* client receives every one of them.                                      *)
(***************************************************************************)
Content == JStr("verdict")

Envelopes ==
    {JObj(<<KV("choices", JList(<<JObj(<<KV("message",
                 JObj(<<KV("content", Content)>>))>>)>>))>>),
     JObj(<<KV("content", JList(<<JObj(<<KV("text", Content)>>)>>))>>),
     JObj(<<KV("candidates", JList(<<JObj(<<KV("content",
                 JObj(<<KV("parts", JList(<<JObj(<<KV("text", Content)>>)>>))>>))>>)>>))>>),
     EmptyDict,
     JObj(<<KV("error", JObj(<<KV("message", JStr("rate limit"))>>))>>),
     JObj(<<KV("choices", EmptyList)>>),
     JObj(<<KV("choices", JNull)>>),
     JObj(<<KV("choices", JObj(<<KV("0", EmptyDict)>>))>>),
     JObj(<<KV("choices", JList(<<JObj(<<KV("message", JNull)>>)>>))>>),
     JObj(<<KV("choices", JList(<<JObj(<<KV("message",
                 JObj(<<KV("content", JNull)>>))>>)>>))>>),
     JObj(<<KV("content", EmptyList)>>),
     JObj(<<KV("content", JStr("text"))>>),
     JObj(<<KV("content", JList(<<JObj(<<KV("type", JStr("tool_use"))>>)>>))>>),
     JObj(<<KV("candidates", EmptyList)>>),
     JObj(<<KV("candidates", JList(<<JObj(<<KV("finishReason", JStr("SAFETY"))>>)>>))>>),
     JObj(<<KV("candidates", JList(<<JObj(<<KV("content",
                 JObj(<<KV("parts", EmptyList)>>))>>)>>))>>),
     EmptyList,
     JStr("Bad Gateway"),
     JNum(1),
     JNull}

HttpOutcomes ==
    {Http("connect_error", <<>>), Http("timeout", <<>>), Http("response", <<>>)}
    \cup {Http("response", <<e>>) : e \in Envelopes}

InitClient ==
    /\ credits_balance = <<>>
    /\ transaction = <<>>
    /\ analysis = <<>>
    /\ session = EmptyBag
    /\ task = <<>>
    /\ nreq = 0
    /\ llm_responses = <<>>
    /\ get_analysis_response = <<>>
    /\ \E model \in {"gpt4", "claude", "gemini"} :
          client = [model |-> model, pc |-> "called", calls |-> 0,
                    http |-> <<>>, result |-> <<>>]
    /\ parser = <<>>
    /\ token = <<>>
    /\ clock = 0
    /\ refresh_response = <<>>

\* await client.post(...): the one HTTP call of the invocation
client_post(http) ==
    /\ client.pc = "called"
    /\ client' = [client EXCEPT !.pc = "posted", !.calls = @ + 1, !.http = <<http>>]
    /\ UNCHANGED <<credits_balance, transaction, analysis, session, task, nreq,
                   llm_responses, get_analysis_response, parser, auth_vars>>

\* the rest of the try block, or the except clause, and the return
client_return ==
    /\ client.pc = "posted"
    /\ client' = [client EXCEPT !.pc = "returned",
                                !.result = <<client_result(client.model, client.http[1])>>]
    /\ UNCHANGED <<credits_balance, transaction, analysis, session, task, nreq,
                   llm_responses, get_analysis_response, parser, auth_vars>>

NextClient ==
    \/ \E http \in HttpOutcomes : client_post(http)
    \/ client_return

SpecClient == InitClient /\ [][NextClient]_vars

(***************************************************************************)
(* Stripe delivers webhooks at least once.  One checkout session, of the   *)
(* starter package for user 1, has been paid; every request to             *)
(* /credits/webhook is a delivery of its checkout.session.completed event, *)
(* while analyses are requested and run.                                   *)
(***************************************************************************)
NextHook ==
    \/ create_user
    \/ get_current_user
    \/ \E s \in BagToSet(session), o \in OriginalResponses, m \in ModelLists,
          ok \in BOOLEAN : create_analysis(s, o, m, ok)
    \/ stripe_webhook_query(1)
    \/ \E s \in BagToSet(session), ok \in BOOLEAN :
          stripe_webhook(s, StarterCredits, ok)
    \/ \E id \in AnalysisIds, q \in BOOLEAN, ok \in BOOLEAN, h \in BOOLEAN :
          run_analysis_start(id, q, ok, h)
    \/ Finish

SpecHook == Init /\ [][NextHook]_vars

(***************************************************************************)
(* One call of _parse_json_response.  The texts are every sequence of at   *)
(* most MaxSegments segments: prose, prose with a stray brace, a dict, a    *)
(* list of dicts, a list without a dict.                                   *)
(***************************************************************************)
MaxSegments == 3

DictOne == JObj(<<KV("score", JNum(1))>>)
DictTwo == JObj(<<KV("score", JNum(2))>>)

Segments == {Prose, LBrace, RBrace, Json(DictOne), Json(DictTwo),
             Json(JList(<<DictOne, DictTwo>>)), Json(JList(<<JNum(1)>>))}

ParseTexts == UNION {[1..n -> Segments] : n \in 0..MaxSegments}

InitParse ==
    /\ credits_balance = <<>>
    /\ transaction = <<>>
    /\ analysis = <<>>
    /\ session = EmptyBag
    /\ task = <<>>
    /\ nreq = 0
    /\ llm_responses = <<>>
    /\ get_analysis_response = <<>>
    /\ client = <<>>
    /\ \E text \in ParseTexts :
          parser = [text |-> text, pc |-> "called", result |-> <<>>]
    /\ token = <<>>
    /\ clock = 0
    /\ refresh_response = <<>>

\* the call runs to its return statement
parse_json_response_return ==
    /\ parser.pc = "called"
    /\ parser' = [parser EXCEPT !.pc = "returned",
                                !.result = parse_json_response(parser.text)]
    /\ UNCHANGED <<credits_balance, transaction, analysis, session, task, nreq,
                   llm_responses, get_analysis_response, client, auth_vars>>

NextParse == parse_json_response_return

SpecParse == InitParse /\ [][NextParse]_vars

(***************************************************************************)
(* Refresh tokens.  create_refresh_token signs {sub, user_id, exp} with    *)
(* exp = now + 7 days: two tokens of one user made at the same time are    *)
(* the same string.  A Token row holds a user's stored refresh token.      *)
(* Each handler runs from its query to its commit without awaiting.        *)
(***************************************************************************)
MaxClock == 2

\* create_refresh_token(data={"sub": email, "user_id": user_id}, ...) at time iat
create_refresh_token(user_id, iat) == [user_id |-> user_id, iat |-> iat]

\* Token(user_id=..., refresh_token=..., is_active=...)
TokenRow(user_id, refresh_token, is_active) ==
    [user_id |-> user_id, refresh_token |-> refresh_token, is_active |-> is_active]

\* the least index of a non-empty set of row indices: query.first()
FirstOf(rows) == CHOOSE i \in rows : \A j \in rows : i <= j

TokenRowsOf(user) == {i \in 1..Len(token) : token[i].user_id = user}

\* existing_token = db.query(Token).filter(Token.user_id == user.id).first()
\* and the update of that row, or the new row
store_refresh_token(user, refresh_token) ==
    IF TokenRowsOf(user) # {}
    THEN [token EXCEPT ![FirstOf(TokenRowsOf(user))] = TokenRow(user, refresh_token, TRUE)]
    ELSE Append(token, TokenRow(user, refresh_token, TRUE))

\* google_auth (apple_auth and guest_login store the token the same way) for
\* the verified identity of a registered user, at time now
google_auth(user, now, commit_ok) ==
    /\ user \in UserIds
    /\ now \in {clock, clock + 1} /\ now <= MaxClock
    /\ clock' = now
    /\ token' = IF commit_ok
                THEN store_refresh_token(user, create_refresh_token(user, now))
                ELSE token
    /\ UNCHANGED <<credits_balance, transaction, analysis, session, task, nreq,
                   llm_responses, get_analysis_response, client, parser,
                   refresh_response>>

\* logout of the user an access token names: every Token row of the user is
\* made inactive
logout(user, commit_ok) ==
    /\ TokenRowsOf(user) # {}
    /\ token' = IF commit_ok
                THEN [i \in DOMAIN token |->
                        IF token[i].user_id = user
                        THEN [token[i] EXCEPT !.is_active = FALSE]
                        ELSE token[i]]
                ELSE token
    /\ UNCHANGED <<credits_balance, transaction, analysis, session, task, nreq,
                   llm_responses, get_analysis_response, client, parser,
                   clock, refresh_response>>

\* the body of a refresh request: no refreshToken, a string jwt.decode
\* rejects, a token past its exp, a signed token without user_id, or a signed
\* token of a user (signed tokens that were never stored include the access
\* tokens, which carry the same claims)
Presented(kind, refresh_token) == [kind |-> kind, refresh_token |-> refresh_token]

PresentedTokens ==
    {Presented(k, <<>>) : k \in {"missing", "invalid", "expired", "no_user_id"}}
    \cup {Presented("signed", <<create_refresh_token(u, t)>>) :
             u \in UserIds, t \in 0..clock}

RefreshResponse(presented, status_code, detail, refresh_token) ==
    [presented |-> presented, status_code |-> status_code, detail |-> detail,
     refresh_token |-> refresh_token]

\* the rows the query of refresh_token_func matches
MatchingRows(refresh_token) ==
    {i \in 1..Len(token) : /\ token[i].user_id = refresh_token.user_id
                           /\ token[i].refresh_token = refresh_token}

\* a refresh that does not look at is_active
refresh_token_func_inactive_too(presented, now, commit_ok) ==
    /\ now \in {clock, clock + 1} /\ now <= MaxClock
    /\ clock' = now
    /\ IF presented.kind # "signed" \/ MatchingRows(presented.refresh_token[1]) = {}
          \/ ~commit_ok
       THEN /\ refresh_response' = RefreshResponse(presented, 401, "rejected", <<>>)
            /\ UNCHANGED token
       ELSE LET new == create_refresh_token(presented.refresh_token[1].user_id, now)
                row == FirstOf(MatchingRows(presented.refresh_token[1]))
            IN  /\ token' = [token EXCEPT ![row].refresh_token = new]
                /\ refresh_response' =
                      RefreshResponse(presented, 200, "Token refreshed successfully", <<new>>)
    /\ UNCHANGED <<credits_balance, transaction, analysis, session, task, nreq,
                   llm_responses, get_analysis_response, client, parser>>

\* refresh_token_func at time now
refresh_token_func(presented, now, commit_ok) ==
    /\ now \in {clock, clock + 1} /\ now <= MaxClock
    /\ clock' = now
    /\ IF presented.kind = "missing"
       THEN /\ refresh_response' =
                  RefreshResponse(presented, 401, "Refresh token is required", <<>>)
            /\ UNCHANGED token
       ELSE IF presented.kind = "expired"
       THEN /\ refresh_response' =
                  RefreshResponse(presented, 401, "Refresh token has expired", <<>>)
            /\ UNCHANGED token
       ELSE IF presented.kind \in {"invalid", "no_user_id"}
               \/ MatchingRows(presented.refresh_token[1]) = {}
       THEN /\ refresh_response' =
                  RefreshResponse(presented, 401, "Invalid refresh token", <<>>)
            /\ UNCHANGED token
       ELSE IF ~token[FirstOf(MatchingRows(presented.refresh_token[1]))].is_active
       THEN /\ refresh_response' =
                  RefreshResponse(presented, 401, "Inactive refresh token", <<>>)
            /\ UNCHANGED token
       ELSE IF ~commit_ok
       THEN /\ refresh_response' =
                  RefreshResponse(presented, 401, "Invalid or expired refresh token", <<>>)
            /\ UNCHANGED token
       ELSE LET new == create_refresh_token(presented.refresh_token[1].user_id, now)
                row == FirstOf(MatchingRows(presented.refresh_token[1]))
            IN  /\ token' = [token EXCEPT ![row].refresh_token = new]
                /\ refresh_response' =
                      RefreshResponse(presented, 200, "Token refreshed successfully", <<new>>)
    /\ UNCHANGED <<credits_balance, transaction, analysis, session, task, nreq,
                   llm_responses, get_analysis_response, client, parser>>

\* two registered users; logins, logouts and refreshes in any order
InitAuth ==
    /\ credits_balance = <<InitialCredits, InitialCredits>>
    /\ transaction = <<>>
    /\ analysis = <<>>
    /\ session = EmptyBag
    /\ task = <<>>
    /\ nreq = 0
    /\ llm_responses = <<>>
    /\ get_analysis_response = <<>>
    /\ client = <<>>
    /\ parser = <<>>
    /\ token = <<>>
    /\ clock = 0
    /\ refresh_response = <<>>

NextAuth ==
    \/ \E u \in UserIds, now \in 0..MaxClock, ok \in BOOLEAN : google_auth(u, now, ok)
    \/ \E u \in UserIds, ok \in BOOLEAN : logout(u, ok)
    \/ \E p \in PresentedTokens, now \in 0..MaxClock, ok \in BOOLEAN :
          refresh_token_func(p, now, ok)

SpecAuth == InitAuth /\ [][NextAuth]_vars

(***************************************************************************)
(* Properties.                                                             *)
(***************************************************************************)
\* the sum of the amounts of the Transaction rows of a user
LedgerSum(user) ==
    SumSeq([i \in 1..Len(transaction) |->
              IF transaction[i].user_id = user THEN transaction[i].amount ELSE 0])

LedgerMatches(user) == credits_balance[user] = InitialCredits + LedgerSum(user)

\* C1: when the balance-changing requests run one at a time, every user's
\* credits_balance equals 100 plus the sum of the amounts of that user's
\* Transaction rows, after any sequence of them.
C1_SequentialLedger == \A u \in UserIds : LedgerMatches(u)

\* a debit and a credit of one user have both been committed
C1_Witness ==
    \E u \in UserIds :
       /\ \E i \in 1..Len(transaction) : transaction[i] = Transaction(u, "usage", -10)
       /\ \E i \in 1..Len(transaction) : transaction[i] = Transaction(u, "purchase", 50)
       /\ credits_balance[u] = 140
       /\ session = EmptyBag

\* C2: when balance-changing requests of one user overlap, the user's
\* credits_balance still equals 100 plus the sum of the user's Transaction
\* amounts once all of them have committed.
C2_OverlapLedger == session = EmptyBag => \A u \in UserIds : LedgerMatches(u)

\* C3: a create_analysis request made while the user's credits_balance is
\* below 10 times the number of requested providers creates no Analysis row
\* and no Transaction row, leaves credits_balance unchanged and schedules no
\* run_analysis, whatever its commit would do.
C3_RejectionLeavesNothing ==
    [][\A s \in BagToSet(session), o \in OriginalResponses, m \in ModelLists,
          ok \in BOOLEAN :
          (s.loaded < 10 * Len(m) /\ create_analysis(s, o, m, ok))
             => UNCHANGED <<credits_balance, transaction, analysis, task>>]_vars

\* a create_analysis request in flight for two providers that loaded a
\* balance of 5, and its rejection is the step it takes
C3_Witness ==
    \E s \in BagToSet(session) :
       /\ s.op = "create_analysis"
       /\ s.loaded = 5
       /\ credits_balance[s.user] = 5
       /\ ENABLED (/\ create_analysis(s, "pitch", <<"claude", "gpt4">>, TRUE)
                   /\ UNCHANGED <<credits_balance, transaction, analysis, task>>)

\* C4: the step that accepts a create_analysis request stores 10 credits per
\* requested provider as credits_used, appends exactly one usage Transaction
\* of minus that amount and writes the balance the request loaded less that
\* amount; no other step adds a usage Transaction, and no step of
\* run_analysis, whatever the providers do, changes the ledger or
\* credits_used.
C4_ExactDebit ==
    [][/\ Len(analysis') = Len(analysis) + 1 =>
             LET id == Len(analysis')
                 user == analysis'[id].user_id
                 cost == 10 * Len(analysis'[id].models_used)
             IN  /\ analysis'[id].credits_used = cost
                 /\ transaction' = Append(transaction, Transaction(user, "usage", 0 - cost))
                 /\ \E s \in BagToSet(session) :
                       /\ s.op = "create_analysis"
                       /\ session' = Remove(session, s)
                       /\ credits_balance'[user] = s.loaded - cost
       /\ Len(analysis') = Len(analysis) =>
             \A i \in (Len(transaction) + 1)..Len(transaction') :
                transaction'[i].type # "usage"
       /\ \A id \in AnalysisIds :
             /\ analysis'[id].credits_used = analysis[id].credits_used
             /\ task'[id] # task[id] => UNCHANGED <<credits_balance, transaction>>
      ]_vars

\* a two-provider analysis charged 20 whose providers have run and whose
\* record ended failed: the charge and the balance are as at acceptance
C4_Witness ==
    \E id \in AnalysisIds :
       /\ Len(analysis[id].models_used) = 2
       /\ analysis[id].credits_used = 20
       /\ analysis[id].status = "failed"
       /\ task[id].exc = "analyze"
       /\ credits_balance[analysis[id].user_id] = 80

\* the Analysis rows and the usage Transaction rows of a user for a cost
AnalysisRowsOf(user, cost) ==
    {id \in AnalysisIds : analysis[id].user_id = user /\ analysis[id].credits_used = cost}
UsageRowsOf(user, cost) ==
    {i \in 1..Len(transaction) : transaction[i] = Transaction(user, "usage", 0 - cost)}
ChargedCosts ==
    {analysis[id].credits_used : id \in AnalysisIds}
    \cup {0 - transaction[i].amount :
            i \in {j \in 1..Len(transaction) : transaction[j].type = "usage"}}

\* C5: in every reachable state the Analysis rows of a user with a given
\* credits_used and the usage Transaction rows of that user with minus that
\* amount are equally many, so that they pair off one to one; a commit of
\* create_analysis that fails leaves neither.
C5_AnalysisPairsWithUsage ==
    \A u \in UserIds, c \in ChargedCosts :
       Cardinality(AnalysisRowsOf(u, c)) = Cardinality(UsageRowsOf(u, c))

\* one analysis was accepted and charged, and a second request, which the
\* balance allowed, ended without a commit and left nothing
C5_Witness ==
    /\ nreq = 2
    /\ session = EmptyBag
    /\ Len(analysis) = 1
    /\ Len(transaction) = 1
    /\ transaction[1].type = "usage"

StatusChanges ==
    {<<"pending", "processing">>, <<"processing", "completed">>,
     <<"processing", "failed">>}

C7_ResultsIffCompleted ==
    \A id \in AnalysisIds :
       analysis[id].results # <<>> <=> analysis[id].status = "completed"

\* a record failed by the handler after the commit of its results raised
C7_Witness ==
    \E id \in AnalysisIds :
       /\ analysis[id].status = "failed"
       /\ task[id].exc = "commit_results"
       /\ analysis[id].results = <<>>

\* run_analysis of analysis id has ended and its provider responses are known
Ended(id) == llm_responses # <<>> /\ task[id].pc \in {"done", "escaped"}

\* run_analysis of analysis id has returned: no exception left it
Returned(id) == llm_responses # <<>> /\ task[id].pc = "done"

\* the responses of the providers that did not fail
Successful(responses) ==
    LET kept == SelectIdx([i \in 1..Len(responses) |-> ~responses[i].error],
                          1, Len(responses))
    IN  Tuple([i \in 1..Len(kept) |-> responses[kept[i]]])

\* no provider gave a response the parser accepts
NoneParseable(responses) ==
    \A i \in 1..Len(responses) :
       \/ responses[i].response = <<>>
       \/ parse_json_response(responses[i].response) = <<>>

\* C8: when some but not all providers fail and run_analysis returns without
\* a commit that raised, the record is completed and its results are what
\* the successful responses alone synthesize to.
C8_PartialFailureCompletes ==
    \A id \in AnalysisIds :
       (/\ Returned(id)
        /\ task[id].exc # "commit_results"
        /\ \E i \in 1..Len(llm_responses[1]) : llm_responses[1][i].error
        /\ \E i \in 1..Len(llm_responses[1]) : ~llm_responses[1][i].error)
       => /\ analysis[id].status = "completed"
          /\ analysis[id].results =
                synthesize_results(analysis[id].original_response,
                                   Successful(llm_responses[1])).value

\* C9: when no provider gives a parseable response, analyze does not raise
\* and, unless the commit of the results raises, the record is completed
\* with exactly the object of _create_fallback_analysis, for every input
\* text and every such set of provider outcomes.
C9_FallbackWhenNothingParses ==
    \A id \in AnalysisIds :
       (Ended(id) /\ NoneParseable(llm_responses[1]))
       => /\ task[id].exc \in {"none", "commit_results"}
          /\ task[id].exc = "none" =>
                /\ analysis[id].status = "completed"
                /\ analysis[id].results = <<create_fallback_analysis>>

\* three providers that failed, gave no text and gave prose, and the record
\* completed with the fallback object
C9_Witness ==
    \E id \in AnalysisIds :
       /\ Ended(id)
       /\ Len(llm_responses[1]) = 3
       /\ llm_responses[1][1].error
       /\ llm_responses[1][2] = [model |-> "claude", response |-> <<>>, error |-> FALSE]
       /\ llm_responses[1][3].response = TextProse
       /\ analysis[id].original_response = "other pitch"
       /\ analysis[id].status = "completed"
       /\ analysis[id].results = <<create_fallback_analysis>>

\* C10: whatever texts the providers return, a run_analysis that returns and
\* in which no query and no commit raised leaves the record completed and
\* holding a verdict.
C10_OutputNeverFails ==
    \A id \in AnalysisIds :
       (Returned(id) /\ task[id].exc \notin {"query", "commit_processing", "commit_results"})
       => /\ analysis[id].status = "completed"
          /\ analysis[id].results # <<>>

\* the provider identifiers of the service
Providers == {"gpt4", "claude", "gemini"}

\* a request body with empty text, no provider or an unknown provider
Malformed(original_response, models) ==
    \/ original_response = ""
    \/ models = <<>>
    \/ \E i \in 1..Len(models) : models[i] \notin Providers

\* C11: a create_analysis request with empty text, an empty provider list or
\* a provider outside {gpt4, claude, gemini} creates no Analysis row and no
\* Transaction row, changes no balance and schedules no run_analysis.
C11_MalformedLeavesNothing ==
    [][\A s \in BagToSet(session), o \in RequestTexts, m \in RequestModelLists,
          ok \in BOOLEAN :
          (Malformed(o, m) /\ create_analysis(s, o, m, ok))
             => UNCHANGED <<credits_balance, transaction, analysis, task>>]_vars

\* C12: when the lookup, the commit of processing or the commit of the
\* results raised in a run_analysis that has ended, the record is failed and
\* no exception left run_analysis.
C12_PersistenceFailureMarksFailed ==
    \A id \in AnalysisIds :
       (/\ task[id].pc \in {"done", "escaped"}
        /\ task[id].exc \in {"query", "commit_processing", "commit_results"})
       => /\ analysis[id].status = "failed"
          /\ task[id].pc = "done"

\* C13: a step of run_analysis changes no credits_balance and leaves the
\* Transaction rows as they are; no Transaction is ever a refund.
C13_RunAnalysisLeavesLedger ==
    [][/\ (\E id \in AnalysisIds : task'[id] # task[id])
             => UNCHANGED <<credits_balance, transaction>>
       /\ \A i \in 1..Len(transaction') : transaction'[i].type # "refund"]_vars

\* a record that ended failed while its user's balance stays debited and the
\* only Transaction is the usage row
C13_Witness ==
    \E id \in AnalysisIds :
       /\ analysis[id].status = "failed"
       /\ credits_balance[analysis[id].user_id] = InitialCredits - analysis[id].credits_used
       /\ transaction = <<Transaction(analysis[id].user_id, "usage",
                                      0 - analysis[id].credits_used)>>

\* what the providers of the observed analyze call returned, parsed
ProviderVerdicts ==
    [i \in 1..Len(llm_responses[1]) |->
        parse_json_response(llm_responses[1][i].response)[1]]

\* the optimism_bias_score of every verdict that carries one
GivenOptimism ==
    LET v == ProviderVerdicts
        idx == SelectIdx([i \in 1..Len(v) |-> HasKey(v[i], "optimism_bias_score")],
                         1, Len(v))
    IN  [i \in 1..Len(idx) |-> Get(v[idx[i]], "optimism_bias_score", JNull).n]

\* the final_verdict.score of every verdict that carries one
GivenScores ==
    LET v == ProviderVerdicts
        has(i) == /\ HasKey(v[i], "final_verdict")
                  /\ HasKey(Get(v[i], "final_verdict", EmptyDict), "score")
        idx == SelectIdx([i \in 1..Len(v) |-> has(i)], 1, Len(v))
    IN  [i \in 1..Len(idx) |->
           Get(Get(v[idx[i]], "final_verdict", EmptyDict), "score", JNull).n]

\* C14: when every provider returned a verdict with an optimism_bias_score,
\* the merged optimism_bias_score is the truncated mean of all those scores.
C14_OptimismIsMeanOfAll ==
    \A id \in AnalysisIds :
       (/\ Returned(id)
        /\ analysis[id].status = "completed"
        /\ Len(GivenOptimism) = Len(llm_responses[1]))
       => analysis[id].results[1].optimism_bias_score =
             SumSeq(GivenOptimism) \div Len(GivenOptimism)

\* C15: the merged final_verdict.score is the truncated mean of the
\* final_verdict.score of every provider that returned one, and 5 when no
\* provider returned one.
C15_ScoreIsMeanOfGiven ==
    \A id \in AnalysisIds :
       (Returned(id) /\ analysis[id].status = "completed")
       => analysis[id].results[1].final_verdict.score =
             IF GivenScores = <<>> THEN 5
             ELSE SumSeq(GivenScores) \div Len(GivenScores)

\* the competitors of the verdict a provider returned in the observed call,
\* none when it returned no verdict
CompetitorsOf(model) ==
    LET r == llm_responses[1]
        at == {i \in 1..Len(r) : r[i].model = model}
        text == r[CHOOSE i \in at : TRUE].response
    IN  IF at = {} \/ text = <<>> \/ parse_json_response(text) = <<>>
        THEN <<>>
        ELSE Iter(Get(parse_json_response(text)[1], "competitors", EmptyList))

NameOf(comp) == Get(comp, "name", JNull)

\* C16: when two providers of a request return a competitor of the same
\* name, the merged competitors hold exactly one entry of that name, and it
\* is the entry of the provider listed first in the request.
C16_FirstListedProviderWins ==
    \A id \in AnalysisIds :
       (Returned(id) /\ analysis[id].status = "completed")
       => LET m == task[id].models
              merged == analysis[id].results[1].competitors
          IN  \A k1 \in 1..Len(m), k2 \in 1..Len(m) :
                 \A i1 \in DOMAIN CompetitorsOf(m[k1]), i2 \in DOMAIN CompetitorsOf(m[k2]) :
                    (/\ k1 < k2
                     /\ NameOf(CompetitorsOf(m[k1])[i1]) = NameOf(CompetitorsOf(m[k2])[i2])
                     /\ \A k0 \in 1..(k1 - 1) :
                           \A i0 \in DOMAIN CompetitorsOf(m[k0]) :
                              NameOf(CompetitorsOf(m[k0])[i0])
                                 # NameOf(CompetitorsOf(m[k1])[i1]))
                    => /\ Cardinality({j \in DOMAIN merged :
                                         NameOf(merged[j]) = NameOf(CompetitorsOf(m[k1])[i1])}) = 1
                       /\ \E j \in DOMAIN merged : merged[j] = CompetitorsOf(m[k1])[i1]

\* the responses of the observed call put in the order gpt4, claude, gemini
ByProvider(responses) ==
    LET of(model) == {i \in 1..Len(responses) : responses[i].model = model}
        one(model) == IF of(model) = {} THEN <<>>
                      ELSE <<responses[CHOOSE i \in of(model) : TRUE]>>
    IN  one("gpt4") \o one("claude") \o one("gemini")

\* C17: whatever the order in which the provider calls complete, the
\* responses reach the merger in the order gpt4, claude, gemini and the
\* stored verdict is what the per-provider outputs synthesize to in that
\* order.
C17_CompletionOrderIrrelevant ==
    \A id \in AnalysisIds :
       (Returned(id) /\ analysis[id].status = "completed")
       => /\ llm_responses[1] = ByProvider(llm_responses[1])
          /\ analysis[id].results =
                synthesize_results(analysis[id].original_response,
                                   ByProvider(llm_responses[1])).value

\* claude completed before gpt4, both returned a competitor named Acme, and
\* the merged competitor is the one gpt4 returned
C17_Witness ==
    \E id \in AnalysisIds :
       /\ Returned(id)
       /\ analysis[id].status = "completed"
       /\ llm_responses[2] = <<"claude", "gpt4">>
       /\ llm_responses[1][1].response = <<Json(TieVerdict("a"))>>
       /\ llm_responses[1][2].response = <<Json(TieVerdict("b"))>>
       /\ analysis[id].results[1].competitors =
             <<JObj(<<KV("name", JStr("Acme")), KV("url", JStr("a"))>>)>>
       /\ analysis[id].results[1].feasibility_assessment.technical = JStr("a")

\* C18: get_analysis answers 200 with the row only when the row exists and
\* its user_id is the requesting user's id; for an identifier that does not
\* exist or belongs to another user it answers 404 with no field of a row.
C18_ReadOnlyOwnRecord ==
    [][get_analysis_response' # get_analysis_response =>
          LET r == get_analysis_response'
          IN  IF r.analysis_id \in AnalysisIds /\ analysis[r.analysis_id].user_id = r.user
              THEN /\ r.status_code = 200
                   /\ r.response_data = <<ResponseData(r.analysis_id)>>
              ELSE /\ r.status_code = 404
                   /\ r.response_data = <<>>]_vars

\* a user asked for the completed record of the other user and got 404
C18_Witness ==
    /\ get_analysis_response # <<>>
    /\ get_analysis_response.analysis_id \in AnalysisIds
    /\ analysis[get_analysis_response.analysis_id].user_id # get_analysis_response.user
    /\ analysis[get_analysis_response.analysis_id].status = "completed"
    /\ get_analysis_response.status_code = 404
    /\ get_analysis_response.response_data = <<>>

\* C19: a get_analysis step changes no Analysis row, Transaction row or
\* balance, and the verdict a read of a completed record returned equals the
\* results the record holds in every later state, so that all reads of it
\* return the same verdict, the one run_analysis stored.
C19_ReadsAreStable ==
    [][/\ get_analysis_response' # get_analysis_response =>
             UNCHANGED <<credits_balance, transaction, analysis, task>>
       /\ LET r == get_analysis_response'
          IN  (/\ r # <<>>
               /\ r.status_code = 200
               /\ r.response_data[1].status = "completed")
              => /\ r.response_data[1].verdict # <<>>
                 /\ r.response_data[1].verdict = analysis'[r.analysis_id].results
                 /\ analysis'[r.analysis_id].status = "completed"]_vars

\* the read of a completed record by its owner, in a state where a second
\* analysis has been accepted and has completed with another verdict
C19_Witness ==
    /\ get_analysis_response # <<>>
    /\ get_analysis_response.status_code = 200
    /\ get_analysis_response.analysis_id = 1
    /\ get_analysis_response.response_data[1].status = "completed"
    /\ get_analysis_response.response_data[1].verdict = analysis[1].results
    /\ Len(analysis) = 2
    /\ analysis[2].status = "completed"
    /\ analysis[2].results # analysis[1].results

\* C20: the step in which create_analysis commits and returns adds one
\* record, pending, together with its debit, and schedules its run_analysis,
\* which has not started; a record's status changes only in a later step of
\* that run_analysis, so a record whose run_analysis has not started is
\* pending.
C20_PendingUntilReturned ==
    [][/\ \A id \in (Len(analysis) + 1)..Len(analysis') :
             /\ Len(analysis') = Len(analysis) + 1
             /\ analysis'[id].status = "pending"
             /\ task'[id].pc = "queued"
             /\ transaction' =
                   Append(transaction, Transaction(analysis'[id].user_id, "usage",
                                                   0 - analysis'[id].credits_used))
             /\ \E s \in BagToSet(session) :
                   s.op = "create_analysis" /\ session' = Remove(session, s)
       /\ \A id \in AnalysisIds :
             analysis'[id].status # analysis[id].status =>
                /\ task[id].pc \in {"queued", "processing"}
                /\ task'[id].pc # task[id].pc
       /\ \A id \in 1..Len(analysis') :
             task'[id].pc = "queued" => analysis'[id].status = "pending"]_vars

\* create_analysis has returned the identifier of a record that is pending
\* and debited, and its run_analysis has not started
C20_Witness ==
    \E id \in AnalysisIds :
       /\ session = EmptyBag
       /\ analysis[id].status = "pending"
       /\ task[id].pc = "queued"
       /\ credits_balance[analysis[id].user_id] = InitialCredits - analysis[id].credits_used

\* C21: a provider client that has returned did not raise, whatever the
\* network call gave (connection error, timeout, non-JSON body, envelope of
\* any shape); it made exactly one HTTP call, and never more than one; and
\* when its result carries an error its response is the empty string.
C21_ClientNeverRaises ==
    /\ client.calls <= 1
    /\ client.pc = "returned" =>
          /\ client.calls = 1
          /\ ~client.result[1].raised
          /\ client.result[1].model = client.model
          /\ client.result[1].error => client.result[1].response = JStr("")

\* the gemini client has returned an error for an envelope whose candidates
\* list is empty
C21_Witness ==
    /\ client.pc = "returned"
    /\ client.model = "gemini"
    /\ client.http[1] = Http("response", <<JObj(<<KV("candidates", EmptyList)>>)>>)
    /\ client.result[1].error

\* C22: under fair scheduling every accepted Analysis record eventually is
\* completed or failed.
C22_EveryRecordEnds ==
    \A id \in 1..MaxRequests :
       [](id \in AnalysisIds =>
             <>(id \in AnalysisIds /\ analysis[id].status \in {"completed", "failed"}))

\* C23: when run_analysis has called analyze for a record, the number of
\* provider calls analyze issued equals the number of providers the record
\* was charged for (credits_used / 10).
C23_CallsEqualCharge ==
    [][\A id \in AnalysisIds :
          (task[id].pc = "processing" /\ task'[id].pc # "processing")
          => Len(Tasks(task[id].models)) * CreditsPerModel = analysis[id].credits_used]_vars

\* C24: every Transaction row of type usage has an amount below 0 and every
\* row of type purchase or refund has an amount above 0.
C24_AmountSigns ==
    \A i \in 1..Len(transaction) :
       /\ transaction[i].type = "usage" => transaction[i].amount < 0
       /\ transaction[i].type \in {"purchase", "refund"} => transaction[i].amount > 0

\* the risk_factors list of every provider that returned a verdict in the
\* observed analyze call, in the order of the responses
GivenRiskLists ==
    LET r == llm_responses[1]
        idx == SelectIdx([i \in 1..Len(r) |-> r[i].response # <<>>], 1, Len(r))
    IN  [k \in 1..Len(idx) |->
           Get(parse_json_response(r[idx[k]].response)[1], "risk_factors", EmptyList).a]

\* a risk entry as its description: the risk member of an object, the string
\* itself otherwise
RiskDescription(entry) == IF IsDict(entry) THEN Get(entry, "risk", JNull) ELSE entry

\* C25: the merged risk_factors are the providers' risk_factors one after
\* the other in the order of the responses, repeated entries kept, cut to the
\* first 8, each object replaced by the string of its risk member.
C25_RisksConcatenatedAndCut ==
    \A id \in AnalysisIds :
       (Returned(id) /\ analysis[id].status = "completed" /\ Len(GivenRiskLists) > 0)
       => LET all == Flatten(GivenRiskLists)
              cut == IF Len(all) <= 8 THEN all ELSE SubSeq(all, 1, 8)
          IN  /\ Len(analysis[id].results[1].risk_factors) = Len(cut)
              /\ \A i \in 1..Len(cut) :
                    /\ analysis[id].results[1].risk_factors[i] = RiskDescription(cut[i])
                    /\ analysis[id].results[1].risk_factors[i].t = "str"

\* gpt4 returned five risks and claude four: the merged list holds the first
\* eight, with "churn" three times, and the ninth is cut
C25_Witness ==
    \E id \in AnalysisIds :
       /\ Returned(id)
       /\ analysis[id].status = "completed"
       /\ Len(llm_responses[1]) = 2
       /\ llm_responses[1][1].response = <<Json(RiskVerdict(RisksFive))>>
       /\ llm_responses[1][2].response = <<Prose, Json(RiskVerdict(RisksFour))>>
       /\ analysis[id].results[1].risk_factors =
             <<JStr("churn"), JStr("burn rate"), JStr("licence"), JStr("churn"),
               JStr("hiring"), JStr("burn rate"), JStr("latency"), JStr("churn")>>

RECURSIVE FirstDict(_)
\* the first dict in the serialisation of a value that contains one
FirstDict(x) ==
    IF IsDict(x) THEN x
    ELSE FirstDict(x.a[CHOOSE i \in 1..Len(x.a) :
                          /\ ContainsDict(x.a[i])
                          /\ \A j \in 1..(i - 1) : ~ContainsDict(x.a[j])])

\* the decoding of the first top-level brace-delimited span of a text: the
\* span that starts at the first "{" and ends at the "}" that closes it.  A
\* span that starts at a stray brace of the prose does not decode.
FirstSpanDecoded(text) ==
    LET opens == {i \in 1..Len(text) : HasOpen(text[i])}
    IN  IF opens = {} THEN <<>>
        ELSE LET first == CHOOSE i \in opens : \A j \in opens : i <= j
             IN  IF text[first].c = "json" THEN <<FirstDict(text[first].v)>>
                 ELSE <<>>

\* C26: _parse_json_response returns the decoding of the whole text when the
\* whole text decodes, otherwise the decoding of the first top-level
\* brace-delimited span of the text, and None when neither decodes.
C26_FirstSpanIsDecoded ==
    parser.pc = "returned" =>
       parser.result = IF Len(parser.text) = 1 /\ parser.text[1].c = "json"
                       THEN <<parser.text[1].v>>
                       ELSE FirstSpanDecoded(parser.text)

\* C27: the credits_balance of every user is at least 0.
C27_BalanceNeverNegative == \A u \in UserIds : credits_balance[u] >= 0

\* the purchase rows in the transaction table
PurchaseRows == {i \in 1..Len(transaction) : transaction[i].type = "purchase"}

\* C28: however often the checkout.session.completed event of one checkout
\* session is delivered, there is at most one purchase row for it, and the
\* user's balance never exceeds the initial credits plus one package.
C28_WebhookCreditsOnce ==
    /\ Cardinality(PurchaseRows) <= 1
    /\ \A u \in UserIds : credits_balance[u] <= InitialCredits + StarterCredits

\* C29: no step changes the user_id, original_response, context, models_used
\* or credits_used of an existing Analysis record or removes a record; a step
\* that changes a record is a step of that record's run_analysis, it changes
\* only status and results, and every other record and every other task
\* stays as it was.
C29_RecordFrame ==
    [][/\ Len(analysis') >= Len(analysis)
       /\ \A id \in AnalysisIds :
             /\ analysis'[id].user_id = analysis[id].user_id
             /\ analysis'[id].original_response = analysis[id].original_response
             /\ analysis'[id].context = analysis[id].context
             /\ analysis'[id].models_used = analysis[id].models_used
             /\ analysis'[id].credits_used = analysis[id].credits_used
             /\ analysis'[id] # analysis[id] =>
                   /\ task'[id] # task[id]
                   /\ \A other \in AnalysisIds \ {id} :
                         /\ analysis'[other] = analysis[other]
                         /\ task'[other] = task[other]]_vars

\* two analyses ran at once: one has been completed while the other is
\* still processing
C29_Witness ==
    \E id \in AnalysisIds, other \in AnalysisIds :
       /\ id # other
       /\ analysis[id].status = "completed"
       /\ analysis[id].results # <<>>
       /\ task[other].pc = "processing"
       /\ analysis[other].status = "processing"
       /\ analysis[other].results = <<>>

\* the refresh token stored for a user and active, if any
ActiveStored(user) ==
    {token[i].refresh_token : i \in {j \in TokenRowsOf(user) : token[j].is_active}}

\* C30: a refresh request is answered 200 with new tokens only when the
\* presented token is the one stored for its user and that row is active;
\* every other request is answered 401 and leaves the token table as it was.
C30_RefreshOnlyCurrentActive ==
    [][refresh_response' # refresh_response =>
          LET r == refresh_response'
          IN  IF /\ r.presented.kind = "signed"
                 /\ r.presented.refresh_token[1]
                       \in ActiveStored(r.presented.refresh_token[1].user_id)
              THEN r.status_code = 401 => token' = token
              ELSE r.status_code = 401 /\ r.refresh_token = <<>> /\ token' = token]_vars

\* user 1 logged in at time 0 and refreshed at time 1; the replaced token was
\* presented again and rejected, and the stored token is still the new one
C30_Witness ==
    /\ refresh_response # <<>>
    /\ refresh_response.presented = Presented("signed", <<create_refresh_token(1, 0)>>)
    /\ refresh_response.status_code = 401
    /\ refresh_response.detail = "Invalid refresh token"
    /\ token = <<TokenRow(1, create_refresh_token(1, 1), TRUE)>>

====
